---- MODULE Spec2Model ----
(***************************************************************************)
(* The TD3 and BCQ agents of gym_forestfire/agents (td3.py, bcq.py) as a   *)
(* state machine: two agent objects of one class, the files their save     *)
(* and load use, and one action per method call.                           *)
(*                                                                         *)
(* Numbers.  Every real number (a parameter, an observation, a reward, a   *)
(* Q value) is held as an integer count of 1/Scale, so that tau * x and    *)
(* discount * x are exact for tau = k/TauDen and discount = k/DiscDen.     *)
(* Networks.  A network object is the tuple of its parameters; its forward *)
(* pass is a fixed bounded function of the parameters and the input, and   *)
(* an optimizer step moves each parameter one learning-rate unit along the *)
(* sign of Adam's running mean of the loss gradient.                       *)
(***************************************************************************)
EXTENDS Integers, Sequences, FiniteSets, TLC

\* ---------------------------------------------------------------- bounds
\* train calls made in one run, over both agents
MaxTrain == 3
\* tau ranges over 0/TauDen .. TauDen/TauDen
TauDen == 2
\* discount ranges over 0/DiscDen .. DiscDen/DiscDen
DiscDen == 2
\* policy_freq ranges over 1 .. MaxFreq
MaxFreq == 2
\* iterations argument of BCQ.train ranges over 1 .. MaxIterations
MaxIterations == 2

\* ------------------------------------------------------------ arithmetic
RECURSIVE Pow(_, _)
Pow(b, e) == IF e = 0 THEN 1 ELSE b * Pow(b, e - 1)

Scale == DiscDen * Pow(TauDen, MaxTrain)
One == Scale

Sign(x) == IF x > 0 THEN 1 ELSE IF x < 0 THEN -1 ELSE 0
Min2(x, y) == IF x <= y THEN x ELSE y
Max2(x, y) == IF x >= y THEN x ELSE y
\* torch.Tensor.clamp(lo, hi)
Clamp(x, lo, hi) == Max2(lo, Min2(x, hi))

RECURSIVE SumSeq(_)
SumSeq(s) == IF s = <<>> THEN 0 ELSE Head(s) + SumSeq(Tail(s))

\* ------------------------------------------------------- names and sets
Agents == {"A", "B"}
Classes == {"TD3", "BCQ"}
None == "None"
\* what files[f] holds when file f does not exist
NoFile == [exists |-> FALSE]

\* the attributes of an agent that hold a network object
NetFields == {"actor", "actor_target", "critic", "critic_target", "vae"}
\* the parameters of a network, in the order of Module.parameters(), by the
\* name Module.state_dict() gives each
ParamNames(f) ==
    IF f \in {"critic", "critic_target"} THEN <<"l2.weight", "l4.weight">>
    ELSE IF f = "vae" THEN <<"d3.weight">>
    ELSE <<"l2.weight">>

Prefixes == {"p", "q"}
Suffixes == {"_critic", "_critic_optimizer", "_actor", "_actor_optimizer"}
\* filename + "_critic" and so on: a file is named by the prefix and the suffix
FileName(prefix, suffix) == <<prefix, suffix>>
FileNames == {FileName(p, s) : p \in Prefixes, s \in Suffixes}

VARIABLES
    agent,  \* agent[a]: the attributes of agent object a
    heap,   \* heap[a][o]: the parameters of network object o of agent a
    files,  \* files[f]: the content of file f, or NoFile
    last,   \* the last call made: its arguments, what it did, what it raised
    saved,  \* saved[p]: agent and heap of the agent that last saved under p
    count   \* count[a]: optimizer steps and target updates made on agent a

vars == <<agent, heap, files, last, saved, count>>

\* ------------------------------------------------------------- networks
max_action == 2 * One
policy_noise == One
noise_clip == One

\* Actor.forward: max_action * tanh(l2(...)), bounded by max_action
ActorForward(w, state) == Clamp(w[1] + state, -max_action, max_action)

\* Critic.forward: the two heads, each with its own parameters
CriticForward(w, state, action) == <<w[1] + state + action, w[2] + state - action>>

\* Critic.Q1: the first head alone
CriticQ1(w, state, action) == w[1] + state + action

\* Module.state_dict(): parameter name -> value
StateDict(f, w) ==
    [n \in {ParamNames(f)[i] : i \in 1..Len(ParamNames(f))} |->
        w[CHOOSE i \in 1..Len(ParamNames(f)) : ParamNames(f)[i] = n]]

\* Module.load_state_dict(sd): each parameter takes the value under its name
LoadStateDict(f, sd) == [i \in 1..Len(ParamNames(f)) |-> sd[ParamNames(f)[i]]]

\* torch.optim.Adam(params, lr): no per-parameter state before the first step
Adam(net, n, rate) ==
    [params |-> net, lr |-> rate, step |-> 0, exp_avg |-> [i \in 1..n |-> 0]]

\* Optimizer.state_dict(): the state and the hyperparameters, not the tensors
OptStateDict(opt) ==
    [state |-> [step |-> opt.step, exp_avg |-> opt.exp_avg],
     param_groups |-> [lr |-> opt.lr]]

\* Optimizer.load_state_dict(sd): state and hyperparameters replaced, the
\* parameters it steps stay the ones it was constructed with
OptLoadStateDict(opt, sd) ==
    [params |-> opt.params, lr |-> sd.param_groups.lr,
     step |-> sd.state.step, exp_avg |-> sd.state.exp_avg]

\* optimizer.step() with gradient g: the running mean follows the gradient,
\* each parameter moves lr against the sign of its running mean
OptStep(st, optField, g) ==
    LET opt == st.self[optField]
        m == [i \in 1..Len(g) |-> Sign(opt.exp_avg[i] + g[i])]
        w == st.heap[opt.params]
    IN  [self |-> [st.self EXCEPT ![optField] =
                      [opt EXCEPT !.step = @ + 1, !.exp_avg = m]],
         heap |-> [st.heap EXCEPT ![opt.params] =
                      [i \in 1..Len(w) |-> w[i] - opt.lr * m[i]]]]

DeepcopyAlias(st, field, src) == [st EXCEPT !.self[field] = st.self[src]]

\* copy.deepcopy(net), bound to attribute field: a new object with equal
\* parameters; the object the attribute held before is dropped
DeepcopyInto(st, field, src) ==
    [self |-> [st.self EXCEPT ![field] = field],
     heap |-> [st.heap EXCEPT ![field] = st.heap[st.self[src]]]]

SoftUpdateSwapped(st, online, target) ==
    LET w == st.heap[st.self[online]]
        t == st.heap[st.self[target]]
        tn == st.self.tau
    IN  [st EXCEPT !.heap[st.self[target]] =
            [i \in 1..Len(t) |-> ((TauDen - tn) * w[i] + tn * t[i]) \div TauDen]]

\* target_param.data.copy_(tau * param.data + (1 - tau) * target_param.data)
SoftUpdate(st, online, target) ==
    LET w == st.heap[st.self[online]]
        t == st.heap[st.self[target]]
        tn == st.self.tau
    IN  [st EXCEPT !.heap[st.self[target]] =
            [i \in 1..Len(t) |-> (tn * w[i] + (TauDen - tn) * t[i]) \div TauDen]]


\* torch.save(obj, f) and torch.load(f): the framework's serialised blob
Pickle(obj) == [pickle |-> obj]
Unpickle(blob) == blob.pickle

\* --------------------------------------------------------- construction
\* nn.Linear's random initial weights: one draw per agent object
InitWeights(a, f) ==
    IF a = "A"
    THEN (IF f = "critic" THEN <<One, -One>> ELSE IF f = "vae" THEN <<One>> ELSE <<0>>)
    ELSE (IF f = "critic" THEN <<0, One>> ELSE IF f = "vae" THEN <<-One>> ELSE <<-One>>)

\* the learning rate, one step of the parameter grid
lr == One

\* TD3.__init__(..., discount, tau, policy_freq)
TD3Init(a, discount, tau, policy_freq) ==
    LET s0 == [self |-> [cls |-> "TD3", actor |-> "actor", critic |-> "critic",
                         actor_target |-> None, critic_target |-> None,
                         actor_optimizer |-> Adam("actor", 1, lr),
                         critic_optimizer |-> Adam("critic", 2, lr),
                         discount |-> discount, tau |-> tau,
                         policy_freq |-> policy_freq, total_it |-> 0],
                heap |-> [o \in NetFields \ {"vae"} |->
                            IF o \in {"actor", "critic"} THEN InitWeights(a, o)
                            ELSE <<>>]]
        s1 == DeepcopyInto(s0, "actor_target", "actor")
    IN  DeepcopyInto(s1, "critic_target", "critic")

\* ------------------------------------------------------------ TD3.train
\* replay_buffer.sample: the transitions the buffer holds
BufferSeq ==
    << [state |-> 0, action |-> One, next_state |-> One, reward |-> One, not_done |-> 1],
       [state |-> One, action |-> -One, next_state |-> 0, reward |-> -One, not_done |-> 0] >>
Buffer == {BufferSeq[i] : i \in 1..Len(BufferSeq)}
\* a batch: one sampled transition, or the two of the buffer
Batches == {<<tr>> : tr \in Buffer} \cup {BufferSeq}
\* torch.randn_like: the standard-normal draws, in units of policy_noise
RandN == {-2, 0, 1}

\* (randn * policy_noise).clamp(-noise_clip, noise_clip)
ClippedNoise(z) == Clamp(z * policy_noise, -noise_clip, noise_clip)

TargetNetsOnline(self) == [actor |-> self.actor, critic |-> self.critic]

\* the networks the target is computed from
TargetNets(self) == [actor |-> self.actor_target, critic |-> self.critic_target]

\* lines 194-201: the regression target of one transition
TargetQ(st, tr, z) ==
    LET nets == TargetNets(st.self)
        next_action == Clamp(ActorForward(st.heap[nets.actor], tr.next_state)
                                + ClippedNoise(z), -max_action, max_action)
        tq == CriticForward(st.heap[nets.critic], tr.next_state, next_action)
        target_Q == Min2(tq[1], tq[2])
    IN  tr.reward + (tr.not_done * st.self.discount * target_Q) \div DiscDen

\* the gradient of mse_loss(current_Q1, target_Q) + mse_loss(current_Q2, target_Q)
\* with respect to the parameters of the two heads, up to a positive factor
CriticGrad(st, batch, target_Q) ==
    LET cur(j) == CriticForward(st.heap[st.self.critic], batch[j].state, batch[j].action)
    IN  [h \in 1..2 |->
            Sign(SumSeq([j \in 1..Len(batch) |-> cur(j)[h] - target_Q[j]]))]

\* the gradient of -critic.Q1(state, actor(state)).mean() with respect to the
\* actor's parameter: Q1 rises with the action, the action rises with the
\* parameter unless tanh is saturated
ActorGrad(st, batch) ==
    LET w == st.heap[st.self.actor]
        open(j) == IF -max_action < w[1] + batch[j].state
                      /\ w[1] + batch[j].state < max_action THEN 1 ELSE 0
    IN  << -Sign(SumSeq([j \in 1..Len(batch) |-> open(j)])) >>

PolicyDueBeforeIncrement(self) == (self.total_it - 1) % self.policy_freq = 0

PolicyDueAlways(self) == TRUE

\* line 215: if self.total_it % self.policy_freq == 0
PolicyDue(self) == self.total_it % self.policy_freq = 0

\* lines 226-230: both target networks, critic first
UpdateTargets(st) ==
    SoftUpdate(SoftUpdate(st, "critic", "critic_target"), "actor", "actor_target")

\* TD3.train(replay_buffer, batch_size): the whole call
TD3Train(st0, batch, noise) ==
    LET st1 == [st0 EXCEPT !.self.total_it = @ + 1]
        target_Q == [j \in 1..Len(batch) |-> TargetQ(st1, batch[j], noise[j])]
        st2 == OptStep(st1, "critic_optimizer", CriticGrad(st1, batch, target_Q))
        st3 == OptStep(st2, "actor_optimizer", ActorGrad(st2, batch))
    IN  IF PolicyDue(st2.self)
        THEN [st |-> UpdateTargets(st3), target_Q |-> target_Q, raised |-> None,
              steps |-> <<"critic_step", "actor_step", "target_update">>]
        ELSE [st |-> st2, target_Q |-> target_Q, raised |-> None,
              steps |-> <<"critic_step">>]

\* TD3.select_action(state)
TD3SelectAction(st, state) ==
    [st |-> st, raised |-> None, action |-> ActorForward(st.heap[st.self.actor], state)]


\* ------------------------------------------------------ save and load
\* torch.save(obj, filename + suffix)
TorchSave(io, obj, prefix, suffix) ==
    [fs |-> [io.fs EXCEPT ![FileName(prefix, suffix)] = Pickle(obj)],
     written |-> io.written \cup {FileName(prefix, suffix)}]

TD3SaveCopyPaste(st, fs, prefix) ==
    LET io0 == [fs |-> fs, written |-> {}]
        io1 == TorchSave(io0, StateDict("critic", st.heap[st.self.critic]),
                         prefix, "_critic")
        io2 == TorchSave(io1, OptStateDict(st.self.critic_optimizer),
                         prefix, "_critic_optimizer")
        io3 == TorchSave(io2, StateDict("actor", st.heap[st.self.actor]),
                         prefix, "_actor")
    IN  TorchSave(io3, OptStateDict(st.self.critic_optimizer),
                  prefix, "_actor_optimizer")

\* TD3.save(filename)
TD3Save(st, fs, prefix) ==
    LET io0 == [fs |-> fs, written |-> {}]
        io1 == TorchSave(io0, StateDict("critic", st.heap[st.self.critic]),
                         prefix, "_critic")
        io2 == TorchSave(io1, OptStateDict(st.self.critic_optimizer),
                         prefix, "_critic_optimizer")
        io3 == TorchSave(io2, StateDict("actor", st.heap[st.self.actor]),
                         prefix, "_actor")
    IN  TorchSave(io3, OptStateDict(st.self.actor_optimizer),
                  prefix, "_actor_optimizer")

\* net.load_state_dict(torch.load(filename + suffix)); torch.load raises when
\* the file does not exist or cannot be read, and nothing after it runs
LoadNet(r, fs, unreadable, field, prefix, suffix) ==
    LET f == FileName(prefix, suffix) IN
    IF r.raised # None THEN r
    ELSE IF fs[f] = NoFile THEN [r EXCEPT !.raised = "FileNotFoundError", !.at = suffix]
    ELSE IF suffix = unreadable THEN [r EXCEPT !.raised = "OSError", !.at = suffix]
    ELSE [r EXCEPT !.st.heap[r.st.self[field]] = LoadStateDict(field, Unpickle(fs[f])),
                   !.read = @ \cup {f}]

\* optimizer.load_state_dict(torch.load(filename + suffix))
LoadOpt(r, fs, unreadable, field, prefix, suffix) ==
    LET f == FileName(prefix, suffix) IN
    IF r.raised # None THEN r
    ELSE IF fs[f] = NoFile THEN [r EXCEPT !.raised = "FileNotFoundError", !.at = suffix]
    ELSE IF suffix = unreadable THEN [r EXCEPT !.raised = "OSError", !.at = suffix]
    ELSE [r EXCEPT !.st.self[field] = OptLoadStateDict(r.st.self[field], Unpickle(fs[f])),
                   !.read = @ \cup {f}]

\* self.<target> = copy.deepcopy(self.<online>), when nothing raised before it
LoadCopy(r, field, src) ==
    IF r.raised # None THEN r ELSE [r EXCEPT !.st = DeepcopyInto(r.st, field, src)]

TD3LoadCopiesLast(st, fs, unreadable, prefix) ==
    LET r0 == [st |-> st, raised |-> None, at |-> None, read |-> {}]
        r1 == LoadNet(r0, fs, unreadable, "critic", prefix, "_critic")
        r2 == LoadOpt(r1, fs, unreadable, "critic_optimizer", prefix, "_critic_optimizer")
        r3 == LoadNet(r2, fs, unreadable, "actor", prefix, "_actor")
        r4 == LoadOpt(r3, fs, unreadable, "actor_optimizer", prefix, "_actor_optimizer")
        r5 == LoadCopy(r4, "critic_target", "critic")
    IN  LoadCopy(r5, "actor_target", "actor")

TD3LoadResetsCounter(st, fs, unreadable, prefix) ==
    LET r0 == [st |-> st, raised |-> None, at |-> None, read |-> {}]
        r1 == LoadNet(r0, fs, unreadable, "critic", prefix, "_critic")
        r2 == LoadOpt(r1, fs, unreadable, "critic_optimizer", prefix, "_critic_optimizer")
        r3 == LoadCopy(r2, "critic_target", "critic")
        r4 == LoadNet(r3, fs, unreadable, "actor", prefix, "_actor")
        r5 == LoadOpt(r4, fs, unreadable, "actor_optimizer", prefix, "_actor_optimizer")
        r6 == LoadCopy(r5, "actor_target", "actor")
    IN  IF r6.raised # None THEN r6 ELSE [r6 EXCEPT !.st.self.total_it = 0]

\* TD3.load(filename)
TD3Load(st, fs, unreadable, prefix) ==
    LET r0 == [st |-> st, raised |-> None, at |-> None, read |-> {}]
        r1 == LoadNet(r0, fs, unreadable, "critic", prefix, "_critic")
        r2 == LoadOpt(r1, fs, unreadable, "critic_optimizer", prefix, "_critic_optimizer")
        r3 == LoadCopy(r2, "critic_target", "critic")
        r4 == LoadNet(r3, fs, unreadable, "actor", prefix, "_actor")
        r5 == LoadOpt(r4, fs, unreadable, "actor_optimizer", prefix, "_actor_optimizer")
    IN  LoadCopy(r5, "actor_target", "actor")

\* ------------------------------------------------------------------ BCQ
\* BCQ.__init__(..., discount, tau, policy_freq): as TD3's, and the VAE
BCQInit(a, discount, tau, policy_freq) ==
    LET s0 == [self |-> [cls |-> "BCQ", actor |-> "actor", critic |-> "critic",
                         actor_target |-> None, critic_target |-> None, vae |-> "vae",
                         actor_optimizer |-> Adam("actor", 1, lr),
                         critic_optimizer |-> Adam("critic", 2, lr),
                         vae_optimizer |-> Adam("vae", 1, lr),
                         discount |-> discount, tau |-> tau,
                         policy_freq |-> policy_freq, total_it |-> 0],
                heap |-> [o \in NetFields |->
                            IF o \in {"actor", "critic", "vae"} THEN InitWeights(a, o)
                            ELSE <<>>]]
        s1 == DeepcopyInto(s0, "actor_target", "actor")
    IN  DeepcopyInto(s1, "critic_target", "critic")

\* VAE.decode(state, z): max_action * tanh(d3(...))
VAEDecode(w, state, z) == Clamp(w[1] + state + z, -max_action, max_action)

\* VAE.decode(state) with z = None: the latent draw is clipped to [-0.5, 0.5]
VAESample(w, state, eps) == VAEDecode(w, state, Clamp(eps * One, -(One \div 2), One \div 2))

\* Module.__call__ on an Actor: forward(self, state) takes one argument
ActorCall(w, args) ==
    IF Len(args) = 1
    THEN [raised |-> None, value |-> ActorForward(w, args[1])]
    ELSE [raised |-> "TypeError", value |-> None]

\* the methods a Critic has: forward and Q1
CriticMethods == {"forward", "Q1"}
\* critic.<name>(state, action)
CriticMethodCall(w, name, state, action) ==
    IF name \notin CriticMethods THEN [raised |-> "AttributeError", value |-> None]
    ELSE IF name = "Q1" THEN [raised |-> None, value |-> CriticQ1(w, state, action)]
    ELSE [raised |-> None, value |-> CriticForward(w, state, action)]

\* lines 236-244: the VAE is fitted to the batch's action
BCQVaeStage(r, tr, eps) ==
    LET recon == VAEDecode(r.st.heap[r.st.self.vae], tr.state, eps * One)
        open == -max_action < recon /\ recon < max_action
        g == << IF open THEN Sign(recon - tr.action) ELSE 0 >>
    IN  IF r.raised # None THEN r
        ELSE [r EXCEPT !.st = OptStep(r.st, "vae_optimizer", g),
                       !.steps = Append(@, "vae_step")]

\* lines 247-271: the target from critic_target at the actor_target's
\* perturbation of a decoded action, then the critic step
BCQCriticStage(r, tr, eps) ==
    LET hp == r.st.heap
        self == r.st.self
        pa == ActorCall(hp[self.actor_target],
                        <<tr.next_state, VAESample(hp[self.vae], tr.next_state, eps)>>)
        tq == CriticForward(hp[self.critic_target], tr.next_state, pa.value)
        soft == (3 * Min2(tq[1], tq[2]) + Max2(tq[1], tq[2])) \div 4
        target_Q == tr.reward + (tr.not_done * self.discount * soft) \div DiscDen
    IN  IF r.raised # None THEN r
        ELSE IF pa.raised # None THEN [r EXCEPT !.raised = pa.raised]
        ELSE [r EXCEPT !.st = OptStep(r.st, "critic_optimizer",
                                      CriticGrad(r.st, <<tr>>, <<target_Q>>)),
                       !.steps = Append(@, "critic_step")]

\* lines 274-282: the actor step
BCQActorStage(r, tr, eps) ==
    LET hp == r.st.heap
        self == r.st.self
        pa == ActorCall(hp[self.actor], <<tr.state, VAESample(hp[self.vae], tr.state, eps)>>)
        q == CriticMethodCall(hp[self.critic], "q1", tr.state, pa.value)
    IN  IF r.raised # None THEN r
        ELSE IF pa.raised # None THEN [r EXCEPT !.raised = pa.raised]
        ELSE IF q.raised # None THEN [r EXCEPT !.raised = q.raised]
        ELSE [r EXCEPT !.st = OptStep(r.st, "actor_optimizer", ActorGrad(r.st, <<tr>>)),
                       !.steps = Append(@, "actor_step")]

\* lines 285-291: the target networks
BCQTargetStage(r) ==
    IF r.raised # None THEN r
    ELSE [r EXCEPT !.st = UpdateTargets(r.st), !.steps = Append(@, "target_update")]

\* one pass of the body of "for it in range(iterations)"
BCQIteration(r, tr, eps) ==
    BCQTargetStage(BCQActorStage(BCQCriticStage(BCQVaeStage(r, tr, eps), tr, eps),
                                 tr, eps))

\* BCQ.train(replay_buffer, iterations, batch_size): the loop, left at the
\* first iteration that raises
RECURSIVE BCQLoop(_, _, _, _, _)
BCQLoop(r, it, iterations, draws, eps) ==
    IF it = iterations \/ r.raised # None THEN r
    ELSE BCQLoop([BCQIteration(r, draws[it + 1], eps) EXCEPT !.iterations = it + 1],
                 it + 1, iterations, draws, eps)

BCQTrain(st, iterations, draws, eps) ==
    BCQLoop([st |-> st, raised |-> None, steps |-> <<>>, iterations |-> 0],
            0, iterations, draws, eps)

\* BCQ.select_action(state): the state repeated 100 times, one decoded and
\* perturbed candidate per row, the row of the greatest Q1 returned.  zs is the
\* set of latent draws the rows got.
BCQSelectAction(st, state, zs) ==
    LET hp == st.heap
        self == st.self
        cand(z) == ActorCall(hp[self.actor], <<state, VAESample(hp[self.vae], state, z)>>)
        calls == {cand(z) : z \in zs}
        q(c) == CriticMethodCall(hp[self.critic], "q1", state, c.value)
        best == CHOOSE c \in calls : \A d \in calls : q(c).value >= q(d).value
    IN  IF \E c \in calls : c.raised # None
        THEN [st |-> st, candidates |-> {}, action |-> None,
              raised |-> (CHOOSE c \in calls : c.raised # None).raised]
        ELSE IF \E c \in calls : q(c).raised # None
        THEN [st |-> st, candidates |-> {c.value : c \in calls}, action |-> None,
              raised |-> "AttributeError"]
        ELSE [st |-> st, candidates |-> {c.value : c \in calls}, action |-> best.value,
              raised |-> None]

\* BCQ.save(filename)
BCQSave(st, fs, prefix) ==
    LET io0 == [fs |-> fs, written |-> {}]
        io1 == TorchSave(io0, StateDict("critic", st.heap[st.self.critic]),
                         prefix, "_critic")
        io2 == TorchSave(io1, OptStateDict(st.self.critic_optimizer),
                         prefix, "_critic_optimizer")
        io3 == TorchSave(io2, StateDict("actor", st.heap[st.self.actor]),
                         prefix, "_actor")
    IN  TorchSave(io3, OptStateDict(st.self.actor_optimizer),
                  prefix, "_actor_optimizer")

\* BCQ.load(filename)
BCQLoad(st, fs, unreadable, prefix) ==
    LET r0 == [st |-> st, raised |-> None, at |-> None, read |-> {}]
        r1 == LoadNet(r0, fs, unreadable, "critic", prefix, "_critic")
        r2 == LoadOpt(r1, fs, unreadable, "critic_optimizer", prefix, "_critic_optimizer")
        r3 == LoadCopy(r2, "critic_target", "critic")
        r4 == LoadNet(r3, fs, unreadable, "actor", prefix, "_actor")
        r5 == LoadOpt(r4, fs, unreadable, "actor_optimizer", prefix, "_actor_optimizer")
    IN  LoadCopy(r5, "actor_target", "actor")

\* ------------------------------------------------------------- actions
St(a) == [self |-> agent[a], heap |-> heap[a]]

NoCount == [train |-> 0, critic_step |-> 0, actor_step |-> 0, target_update |-> 0,
            vae_step |-> 0]
Occurrences(steps, e) == Cardinality({i \in 1..Len(steps) : steps[i] = e})
Counted(c, steps) ==
    [train |-> c.train + 1,
     critic_step |-> c.critic_step + Occurrences(steps, "critic_step"),
     actor_step |-> c.actor_step + Occurrences(steps, "actor_step"),
     target_update |-> c.target_update + Occurrences(steps, "target_update"),
     vae_step |-> c.vae_step + Occurrences(steps, "vae_step")]
TrainCalls == count["A"].train + count["B"].train

Taus == 0..TauDen
Discounts == 0..DiscDen
Freqs == 1..MaxFreq

\* the agent that is trained and saved; the other one is constructed and loads
Trainer == "A"

Construct(c, a, d, t, k) == IF c = "TD3" THEN TD3Init(a, d, t, k) ELSE BCQInit(a, d, t, k)

InitWith(classes, discounts) ==
    \E c \in classes, d \in discounts, t \in Taus, k \in Freqs :
        /\ agent = [a \in Agents |-> Construct(c, a, d, t, k).self]
        /\ heap = [a \in Agents |-> Construct(c, a, d, t, k).heap]
        /\ files = [f \in FileNames |-> NoFile]
        /\ last = [op |-> "init"]
        /\ saved = [p \in Prefixes |-> NoFile]
        /\ count = [a \in Agents |-> NoCount]

\* agent.train(...), a TD3: the batch is drawn from batches, the noise from randn
Train(a, batches, randn) ==
    /\ agent[a].cls = "TD3"
    /\ TrainCalls < MaxTrain
    /\ \E batch \in batches : \E noise \in [1..Len(batch) -> randn] :
        LET r == TD3Train(St(a), batch, noise) IN
        /\ agent' = [agent EXCEPT ![a] = r.st.self]
        /\ heap' = [heap EXCEPT ![a] = r.st.heap]
        /\ count' = [count EXCEPT ![a] = Counted(@, r.steps)]
        /\ last' = [op |-> "train", agent |-> a, batch |-> batch, noise |-> noise,
                    target_Q |-> r.target_Q, steps |-> r.steps, raised |-> r.raised]
        /\ UNCHANGED <<files, saved>>

\* agent.train(...), a BCQ
TrainBCQ(a) ==
    /\ agent[a].cls = "BCQ"
    /\ TrainCalls < MaxTrain
    /\ \E iterations \in 1..MaxIterations, tr \in Buffer, eps \in {-1, 1} :
        LET r == BCQTrain(St(a), iterations, [i \in 1..iterations |-> tr], eps) IN
        /\ agent' = [agent EXCEPT ![a] = r.st.self]
        /\ heap' = [heap EXCEPT ![a] = r.st.heap]
        /\ count' = [count EXCEPT ![a] = Counted(@, r.steps)]
        /\ last' = [op |-> "train", agent |-> a, iterations |-> iterations,
                    completed |-> r.iterations, steps |-> r.steps, raised |-> r.raised]
        /\ UNCHANGED <<files, saved>>

\* agent.select_action(state)
SelectAction(a) ==
    \E state \in {One} :
        /\ \/ /\ agent[a].cls = "TD3"
              /\ last' = [op |-> "select_action", agent |-> a, state |-> state,
                          action |-> TD3SelectAction(St(a), state).action,
                          raised |-> TD3SelectAction(St(a), state).raised]
           \/ /\ agent[a].cls = "BCQ"
              /\ \E zs \in {{0}, {-1, 0, 1}} :
                   LET r == BCQSelectAction(St(a), state, zs) IN
                   last' = [op |-> "select_action", agent |-> a, state |-> state,
                            candidates |-> r.candidates, action |-> r.action,
                            raised |-> r.raised]
        /\ UNCHANGED <<agent, heap, files, saved, count>>

\* agent.save(prefix), the prefix drawn from prefixes
Save(a, prefixes) ==
    \E prefix \in prefixes :
        LET io == IF agent[a].cls = "TD3" THEN TD3Save(St(a), files, prefix)
                  ELSE BCQSave(St(a), files, prefix) IN
        /\ files' = io.fs
        /\ saved' = [saved EXCEPT ![prefix] = St(a)]
        /\ last' = [op |-> "save", agent |-> a, prefix |-> prefix,
                    written |-> io.written, raised |-> None]
        /\ UNCHANGED <<agent, heap, count>>

\* agent.load(prefix), the prefix drawn from prefixes; unreadable is the file,
\* if any, that torch.load fails to read although it exists, drawn from faults
Load(a, faults, prefixes) ==
    \E prefix \in prefixes, unreadable \in faults :
        LET r == IF agent[a].cls = "TD3" THEN TD3Load(St(a), files, unreadable, prefix)
                 ELSE BCQLoad(St(a), files, unreadable, prefix) IN
        /\ agent' = [agent EXCEPT ![a] = r.st.self]
        /\ heap' = [heap EXCEPT ![a] = r.st.heap]
        /\ last' = [op |-> "load", agent |-> a, prefix |-> prefix, read |-> r.read,
                    raised |-> r.raised, at |-> r.at]
        /\ UNCHANGED <<files, saved, count>>

\* Spec: agents of either class; every method; the trainer's batches are
\* single transitions without noise, and one prefix is used
Init == InitWith(Classes, {DiscDen})

Next ==
    \/ Train(Trainer, [1..1 -> Buffer], {0})
    \/ TrainBCQ(Trainer)
    \/ Save(Trainer, {"p"})
    \/ \E a \in Agents : SelectAction(a)
    \/ \E a \in Agents : Load(a, {None}, {"p"})

Spec == Init /\ [][Next]_vars

\* SpecTrain: one TD3 agent trained on every batch and every noise draw
InitTrain == InitWith({"TD3"}, Discounts)

NextTrain == Train(Trainer, Batches, RandN)

SpecTrain == InitTrain /\ [][NextTrain]_vars

\* SpecFault: a TD3 agent is trained and saved, and the other agent loads
\* while any one file may fail to be read
InitFault == InitWith({"TD3"}, {DiscDen})

NextFault ==
    \/ Train(Trainer, {<<tr>> : tr \in {b \in Buffer : b.not_done = 1}}, {0})
    \/ Save(Trainer, {"p"})
    \/ \E a \in Agents \ {Trainer} : Load(a, Suffixes \cup {None}, {"p"})

SpecFault == InitFault /\ [][NextFault]_vars

\* SpecRoundTrip: a TD3 agent is trained and saved under either prefix, and
\* the other agent loads from either prefix
InitRoundTrip == InitWith({"TD3"}, {DiscDen})

NextRoundTrip ==
    \/ Train(Trainer, [1..1 -> Buffer], {0})
    \/ Save(Trainer, Prefixes)
    \/ \E a \in Agents \ {Trainer} : Load(a, {None}, Prefixes)

SpecRoundTrip == InitRoundTrip /\ [][NextRoundTrip]_vars

\* ---------------------------------------------------------------- claims
TD3Agents == {a \in Agents : agent[a].cls = "TD3"}
BCQAgents == {a \in Agents : agent[a].cls = "BCQ"}
Did(steps, e) == \E i \in 1..Len(steps) : steps[i] = e

\* C1: after n TD3.train calls on an agent with policy_freq = k there have been
\* n critic optimizer steps and n \div k actor optimizer steps and target
\* updates; a call steps the critic always, and steps the actor and updates
\* the targets exactly when its 1-based index, total_it after the increment,
\* is a multiple of k.
C1_DelayedPolicyUpdates ==
    /\ \A a \in TD3Agents :
        /\ agent[a].total_it = count[a].train
        /\ count[a].critic_step = count[a].train
        /\ count[a].actor_step = count[a].train \div agent[a].policy_freq
        /\ count[a].target_update = count[a].train \div agent[a].policy_freq
    /\ (last.op = "train" /\ last.agent \in TD3Agents) =>
        LET due == agent[last.agent].total_it % agent[last.agent].policy_freq = 0 IN
        /\ last.raised = None
        /\ Did(last.steps, "critic_step")
        /\ Did(last.steps, "actor_step") <=> due
        /\ Did(last.steps, "target_update") <=> due

\* three calls made with policy_freq = 2: one actor step, on the second call
C1_Witness ==
    /\ agent[Trainer].cls = "TD3"
    /\ agent[Trainer].policy_freq = 2
    /\ count[Trainer].train = 3
    /\ count[Trainer].actor_step = 1
    /\ last.op = "train" /\ ~Did(last.steps, "actor_step")

\* a TD3.train call has just been made (read in the state it leaves)
TrainedTD3 == last.op = "train" /\ last.agent \in TD3Agents

\* C6: in every TD3.train call the regression target of each sampled
\* transition is reward + not_done * discount * min(Q1, Q2), both heads those
\* of critic_target at the next state and at actor_target's action plus the
\* clipped noise, clamped to the action range; so it is at most reward +
\* discount * either head when not_done = 1, and reward when not_done = 0.
C6_DoubleQTarget ==
    [][TrainedTD3' =>
        \A j \in 1..Len(last'.batch) :
            LET a == last'.agent
                tr == last'.batch[j]
                noise == Clamp(last'.noise[j] * policy_noise, -noise_clip, noise_clip)
                next_action ==
                    Clamp(ActorForward(heap[a][agent[a].actor_target], tr.next_state)
                            + noise, -max_action, max_action)
                q == CriticForward(heap[a][agent[a].critic_target],
                                   tr.next_state, next_action)
                d == agent[a].discount
                y == last'.target_Q[j]
            IN  /\ -noise_clip <= noise /\ noise <= noise_clip
                /\ DiscDen * (y - tr.reward) = tr.not_done * d * Min2(q[1], q[2])
                /\ tr.not_done = 1 =>
                     /\ DiscDen * (y - tr.reward) <= d * q[1]
                     /\ DiscDen * (y - tr.reward) <= d * q[2]
                /\ tr.not_done = 0 => y = tr.reward]_vars

\* a call whose targets came from target networks that differ from the online
\* ones, on a transition that is not terminal, with a discount of 1/2
C6_Witness ==
    /\ TrainedTD3
    /\ count[last.agent].train >= 2
    /\ 0 < agent[last.agent].discount /\ agent[last.agent].discount < DiscDen
    /\ heap[last.agent]["critic"] # heap[last.agent]["critic_target"]
    /\ \E j \in 1..Len(last.batch) :
         last.batch[j].not_done = 1 /\ last.target_Q[j] # last.batch[j].reward

\* C7: a TD3.train call whose index is not a multiple of policy_freq changes
\* the critic's parameters, the critic optimizer's state and total_it, and
\* nothing else: actor, actor optimizer, actor_target and critic_target are as
\* before the call.
C7_NonPolicyStepFrame ==
    [][(TrainedTD3' /\ agent'[last'.agent].total_it % agent'[last'.agent].policy_freq # 0) =>
        LET a == last'.agent IN
        /\ agent' = [agent EXCEPT ![a].total_it = agent'[a].total_it,
                                  ![a].critic_optimizer = agent'[a].critic_optimizer]
        /\ heap' = [heap EXCEPT ![a][agent[a].critic] = heap'[a][agent[a].critic]]
        /\ agent'[a].total_it = agent[a].total_it + 1
        /\ agent'[a].critic_optimizer.step = agent[a].critic_optimizer.step + 1
        /\ heap'[a][agent[a].critic_target] = heap[a][agent[a].critic_target]
        /\ heap'[a][agent[a].actor_target] = heap[a][agent[a].actor_target]
        /\ heap'[a][agent[a].actor] = heap[a][agent[a].actor]
        /\ agent'[a].actor_optimizer = agent[a].actor_optimizer
        /\ files' = files]_vars

\* after a call that is not a policy step the critic differs from critic_target
C7_Witness ==
    /\ TrainedTD3
    /\ agent[last.agent].total_it % agent[last.agent].policy_freq # 0
    /\ last.steps = <<"critic_step">>
    /\ heap[last.agent][agent[last.agent].critic]
         # heap[last.agent][agent[last.agent].critic_target]

Between(x, lo, hi) == (lo <= x /\ x <= hi) \/ (hi <= x /\ x <= lo)

\* C9: on a TD3 policy step every parameter of critic_target and actor_target
\* becomes tau * online + (1 - tau) * old target, online being the parameter
\* after that call's optimizer steps; so it lies between the old target and the
\* online value, tau = 0 leaves the targets as they were and tau = 1 makes them
\* equal to the online networks.
C9_SoftTargetUpdate ==
    /\ [][(TrainedTD3' /\ Did(last'.steps, "target_update")) =>
        LET a == last'.agent
            tau == agent[a].tau
        IN  \A net \in {"actor", "critic"} :
            LET online == heap'[a][agent'[a][net]]
                old == heap[a][agent[a][net \o "_target"]]
                new == heap'[a][agent'[a][net \o "_target"]]
            IN  /\ Len(new) = Len(online) /\ Len(new) = Len(old)
                /\ \A i \in 1..Len(new) :
                    /\ TauDen * new[i] = tau * online[i] + (TauDen - tau) * old[i]
                    /\ Between(new[i], old[i], online[i])
                    /\ tau = 0 => new[i] = old[i]
                    /\ tau = TauDen => new[i] = online[i]]_vars
    /\ [](\A a \in TD3Agents :
            (agent[a].tau = 0 /\ last.op \in {"init", "train"}) =>
                /\ heap[a][agent[a].actor_target] = InitWeights(a, "actor")
                /\ heap[a][agent[a].critic_target] = InitWeights(a, "critic"))

\* a policy step with tau = 1/2 that left a target strictly between its old
\* value and the online value, so still different from the online network
C9_Witness ==
    /\ TrainedTD3
    /\ Did(last.steps, "target_update")
    /\ 0 < agent[last.agent].tau /\ agent[last.agent].tau < TauDen
    /\ heap[last.agent]["critic_target"] # heap[last.agent]["critic"]
    /\ heap[last.agent]["actor_target"] # heap[last.agent]["actor"]

\* the four files of a prefix
FilesOf(prefix) == {FileName(prefix, sfx) : sfx \in Suffixes}
\* what is saved and loaded of an optimizer
OptState(opt) == [step |-> opt.step, exp_avg |-> opt.exp_avg, lr |-> opt.lr]
\* the parameters of network net and the state of its optimizer, in st
Component(st, net) ==
    [params |-> st.heap[st.self[net]], opt |-> OptState(st.self[net \o "_optimizer"])]

LoadedOk == last.op = "load" /\ last.raised = None

\* C2: A.save(p) then B.load(p), both TD3: B's actor and critic parameters and
\* both optimizer states equal A's at the time of the save; save leaves A as it
\* was and writes the four files of p, and load reads exactly those four.
C2_TD3SaveLoadRoundTrip ==
    /\ (last.op = "save" /\ last.agent \in TD3Agents) =>
        /\ last.written = FilesOf(last.prefix)
        /\ \A f \in FilesOf(last.prefix) : files[f] # NoFile
        /\ St(last.agent) = saved[last.prefix]
    /\ (LoadedOk /\ last.agent \in TD3Agents) =>
        /\ last.read = FilesOf(last.prefix)
        /\ Component(St(last.agent), "actor") = Component(saved[last.prefix], "actor")
        /\ Component(St(last.agent), "critic") = Component(saved[last.prefix], "critic")

\* B, as constructed, has loaded what A saved after two train calls
C2_Witness ==
    /\ LoadedOk /\ last.agent \in TD3Agents /\ last.agent # Trainer
    /\ saved[last.prefix].self.total_it >= 2
    /\ saved[last.prefix].self.actor_optimizer.step >= 1
    /\ agent[last.agent].actor_optimizer.step >= 1
    /\ heap[last.agent]["critic"] # InitWeights(last.agent, "critic")

\* C3 (as claimed): A.save(p) then B.load(p), both BCQ: actor, critic and VAE,
\* each with its optimizer, are in B what they were in A at the save.
C3_BCQRoundTripWholeState ==
    (LoadedOk /\ last.agent \in BCQAgents) =>
        /\ Component(St(last.agent), "actor") = Component(saved[last.prefix], "actor")
        /\ Component(St(last.agent), "critic") = Component(saved[last.prefix], "critic")
        /\ Component(St(last.agent), "vae") = Component(saved[last.prefix], "vae")

RECURSIVE Repeat(_, _)
Repeat(s, n) == IF n = 0 THEN <<>> ELSE s \o Repeat(s, n - 1)

\* C4 (as claimed): BCQ.train with iterations = n >= 1 returns normally after n
\* iterations, each a VAE step, a critic step, an actor step and the target
\* update, in this order.
C4_BCQTrainCompletes ==
    (last.op = "train" /\ last.agent \in BCQAgents) =>
        /\ last.raised = None
        /\ last.completed = last.iterations
        /\ last.steps = Repeat(<<"vae_step", "critic_step", "actor_step", "target_update">>,
                               last.iterations)

\* C5 (as claimed): BCQ.select_action returns normally one of the candidate
\* actions, one whose Q1 is greatest among them.
C5_BCQSelectsBestCandidate ==
    (last.op = "select_action" /\ last.agent \in BCQAgents) =>
        /\ last.raised = None
        /\ last.action \in last.candidates
        /\ \A c \in last.candidates :
             CriticQ1(heap[last.agent][agent[last.agent].critic], last.state, last.action)
               >= CriticQ1(heap[last.agent][agent[last.agent].critic], last.state, c)

\* the target networks of agent a are equal to the online ones and are
\* objects of their own
TargetsSynced(a) ==
    /\ heap[a][agent[a].actor_target] = heap[a][agent[a].actor]
    /\ heap[a][agent[a].critic_target] = heap[a][agent[a].critic]
    /\ agent[a].actor_target # agent[a].actor
    /\ agent[a].critic_target # agent[a].critic

\* C8: right after construction, and right after any load that returned, of
\* a TD3 or a BCQ, actor_target equals actor and critic_target equals critic,
\* each target an object of its own: a train call that does not update the
\* targets leaves them as they were whatever it does to the online networks.
C8_TargetsSyncedAfterInitAndLoad ==
    /\ [](last.op = "init" => \A a \in Agents : TargetsSynced(a))
    /\ [](LoadedOk => TargetsSynced(last.agent))
    /\ [][(last'.op = "train" /\ ~Did(last'.steps, "target_update")) =>
            LET a == last'.agent IN
            /\ heap'[a][agent'[a].actor_target] = heap[a][agent[a].actor_target]
            /\ heap'[a][agent'[a].critic_target] = heap[a][agent[a].critic_target]]_vars

\* a load on an agent whose targets had been updated with tau = 1/2
C8_Witness ==
    /\ LoadedOk
    /\ count[last.agent].target_update >= 1
    /\ count[last.agent].critic_step > count[last.agent].target_update
    /\ 0 < agent[last.agent].tau /\ agent[last.agent].tau < TauDen
    /\ saved[last.prefix].heap["critic_target"] # saved[last.prefix].heap["critic"]

\* C10 (as claimed): a TD3.load that raises leaves the agent as it was.
C10_LoadAllOrNothing ==
    [][(last'.op = "load" /\ last'.raised # None) =>
            /\ agent'[last'.agent] = agent[last'.agent]
            /\ heap'[last'.agent] = heap[last'.agent]]_vars

\* C10 (amended): a TD3.load that raises because a file cannot be read keeps
\* what the statements before the failing read did, and leaves the rest as
\* before the call: at prefix_critic nothing has changed; at
\* prefix_critic_optimizer the critic's parameters are loaded; at prefix_actor
\* also the critic optimizer, and critic_target is a copy of the loaded
\* critic; at prefix_actor_optimizer also the actor's parameters.
C10_LoadKeepsPrefix ==
    [][(last'.op = "load" /\ last'.raised # None /\ last'.agent \in TD3Agents) =>
        LET a == last'.agent
            at == last'.at
            src == saved[last'.prefix]
            pre == St(a)
            post == [self |-> agent'[a], heap |-> heap'[a]]
            done(sfx) ==
                \/ sfx = "_critic" /\ at \in {"_critic_optimizer", "_actor", "_actor_optimizer"}
                \/ sfx = "_critic_optimizer" /\ at \in {"_actor", "_actor_optimizer"}
                \/ sfx = "_actor" /\ at = "_actor_optimizer"
            from(sfx) == IF done(sfx) THEN src ELSE pre
        IN  /\ at \in Suffixes
            /\ post.heap[post.self.critic] = from("_critic").heap[from("_critic").self.critic]
            /\ OptState(post.self.critic_optimizer)
                 = OptState(from("_critic_optimizer").self.critic_optimizer)
            /\ post.heap[post.self.critic_target]
                 = IF done("_critic_optimizer") THEN src.heap[src.self.critic]
                   ELSE pre.heap[pre.self.critic_target]
            /\ post.heap[post.self.actor] = from("_actor").heap[from("_actor").self.actor]
            /\ post.self.actor_optimizer = pre.self.actor_optimizer
            /\ post.heap[post.self.actor_target] = pre.heap[pre.self.actor_target]
            /\ post.self.total_it = pre.self.total_it
            /\ at = "_critic" => post = pre]_vars

\* a load that failed at prefix_actor: the critic and critic_target hold the
\* loaded parameters, the actor those from before the call
C10_Witness ==
    /\ last.op = "load" /\ last.raised # None /\ last.at = "_actor"
    /\ heap[last.agent]["critic"] = saved[last.prefix].heap["critic"]
    /\ heap[last.agent]["critic_target"] = saved[last.prefix].heap["critic"]
    /\ heap[last.agent]["critic"] # InitWeights(last.agent, "critic")
    /\ heap[last.agent]["actor"] = InitWeights(last.agent, "actor")
    /\ heap[last.agent]["actor"] # saved[last.prefix].heap["actor"]

\* C11: total_it is 0 after construction, a TD3.train call adds exactly 1 to
\* it, and select_action, save and load leave it as it was; so after any
\* interleaving of these calls it is the number of train calls made on that
\* agent object, whatever the agent whose files were loaded had counted.
C11_IterationCounter ==
    /\ [](last.op = "init" => \A a \in TD3Agents : agent[a].total_it = 0)
    /\ [](\A a \in TD3Agents : agent[a].total_it = count[a].train)
    /\ [][\A a \in TD3Agents :
            IF last'.op = "train" /\ last'.agent = a
            THEN agent'[a].total_it = agent[a].total_it + 1
            ELSE agent'[a].total_it = agent[a].total_it]_vars

\* an agent has loaded, with policy_freq = 2, what another state of the
\* counter saved: its own counter and phase are not those of the saver
C11_Witness ==
    /\ LoadedOk /\ last.agent \in TD3Agents
    /\ agent[last.agent].policy_freq = 2
    /\ saved[last.prefix].self.total_it # agent[last.agent].total_it
    /\ saved[last.prefix].self.total_it % 2 # agent[last.agent].total_it % 2
    /\ agent[last.agent].total_it = count[last.agent].train
    /\ agent[last.agent].critic_optimizer.step = saved[last.prefix].self.critic_optimizer.step
====
